---- MODULE Spec2Model ----
(***************************************************************************)
(* Traffic Portal: the profile add/edit form (ProfileDetailComponent), the *)
(* ProfileService HTTP wrapper it calls, the core module's route table and *)
(* the detail form's field validation, as state machines.                  *)
(*                                                                         *)
(* Strings that the code parses or formats (the route parameter, request   *)
(* parameters, path segments) are sequences of one-character strings, so   *)
(* that parseInt, Number and String are computed character by character.   *)
(* Opaque texts (profile names, descriptions, titles) are TLA+ strings.    *)
(***************************************************************************)
EXTENDS Integers, Sequences, FiniteSets, TLC

\* ------------------------------------------------------------- bounds
\* longest route parameter tried
MaxIdLen == 2
\* calls of submit and deleteType per component instance
MaxActions == 3

\* --------------------------------------------------------- JS values
\* `undefined`: the value of an uninitialised field and of r[0] on an empty array
Undefined == <<>>
\* `null`, as returned by paramMap.get for a missing parameter
Null == <<"null">>
\* the JS number NaN (every other number of the model is an integer > NaN)
NaN == -1000

DigitChars == {"0", "1", "2", "3", "4", "5", "6", "7", "8", "9"}

DigitValue(c) ==
    CASE c = "0" -> 0 [] c = "1" -> 1 [] c = "2" -> 2 [] c = "3" -> 3
      [] c = "4" -> 4 [] c = "5" -> 5 [] c = "6" -> 6 [] c = "7" -> 7
      [] c = "8" -> 8 [] c = "9" -> 9

DigitChar(d) ==
    CASE d = 0 -> "0" [] d = 1 -> "1" [] d = 2 -> "2" [] d = 3 -> "3"
      [] d = 4 -> "4" [] d = 5 -> "5" [] d = 6 -> "6" [] d = 7 -> "7"
      [] d = 8 -> "8" [] d = 9 -> "9"

\* the value of a sequence of decimal digits
RECURSIVE DigitsValue(_)
DigitsValue(s) ==
    IF s = <<>> THEN 0
    ELSE 10 * DigitsValue(SubSeq(s, 1, Len(s) - 1)) + DigitValue(s[Len(s)])

\* the longest prefix of s made of decimal digits
RECURSIVE DigitPrefix(_)
DigitPrefix(s) ==
    IF s = <<>> \/ Head(s) \notin DigitChars THEN <<>>
    ELSE <<Head(s)>> \o DigitPrefix(Tail(s))

\* the sign a leading "-" gives a numeric string, and the string after it
Sign(s) == IF s # <<>> /\ Head(s) = "-" THEN -1 ELSE 1

Unsigned(s) == IF s # <<>> /\ Head(s) = "-" THEN Tail(s) ELSE s

\* parseInt(s, 10) on a string without white space or "+": the value of the
\* digits that follow the optional "-", NaN when there are none
parseInt(s) ==
    IF DigitPrefix(Unsigned(s)) = <<>> THEN NaN
    ELSE Sign(s) * DigitsValue(DigitPrefix(Unsigned(s)))

\* Number(s) on a string without white space, "+", point or exponent: 0 for
\* the empty string, the value when an optional "-" is followed by digits
\* only, NaN otherwise
Number(s) ==
    IF s = <<>> THEN 0
    ELSE IF Unsigned(s) # <<>> /\ DigitPrefix(Unsigned(s)) = Unsigned(s)
    THEN Sign(s) * DigitsValue(Unsigned(s))
    ELSE NaN

\* the decimal digits of n >= 0
RECURSIVE NatToString(_)
NatToString(n) ==
    IF n < 10 THEN <<DigitChar(n)>>
    ELSE NatToString(n \div 10) \o <<DigitChar(n % 10)>>

\* String(n), also `${n}` in a template literal
NumberToString(n) ==
    IF n = NaN THEN <<"N", "a", "N">>
    ELSE IF n < 0 THEN <<"-">> \o NatToString(-n)
    ELSE NatToString(n)

\* ------------------------------------------------------- input domains
\* characters of the route parameters tried: three digits, the minus sign and
\* a letter
Chars == {"0", "1", "2", "-", "a"}

Strings(n) == UNION {[1..k -> Chars] : k \in 0..n}

\* the route parameter of the "new profile" page
NewId == <<"n", "e", "w">>

\* what paramMap.get("id") may return
RouteIds == {Null, NewId} \cup Strings(MaxIdLen)

\* texts typed into the name field
Names == {"edge"}

\* ------------------------------------------------------------ records
\* the fields of a Profile the form binds (id, name, description)
Profile(id, name, description) ==
    [id |-> id, name |-> name, description |-> description]

\* ngOnInit building the record with id 0 instead of the sentinel
EmptyProfile_zeroId == [id |-> 0, name |-> "", description |-> ""]

\* the record ngOnInit builds for the "new" page
EmptyProfile == Profile(-1, "", "")

\* the response of GET cdns
CDNS == <<[id |-> 1, name |-> "ALL"]>>

\* the profiles the server holds when the page is opened, by id
InitialServer == (2 :> Profile(2, "test", "two")) @@ (20 :> Profile(20, "edge", "twenty"))

\* the id the server gives the first profile it creates
InitialNextId == 21

\* ----------------------------------------------------- ProfileService
\* arguments of getProfiles and deleteProfile, with their typeof
NumArg(n) == [type |-> "number", value |-> n]
StrArg(s) == [type |-> "string", value |-> s]
ObjArg(o) == [type |-> "object", value |-> o]
NoArg == [type |-> "undefined"]

HttpRequest(method, path, params, body) ==
    [method |-> method, path |-> path, params |-> params, body |-> body]

\* getProfiles sending every argument as an id
getProfilesParams_idKey(idOrName) ==
    IF idOrName.type = "number"
    THEN [key |-> "id", value |-> NumberToString(idOrName.value)]
    ELSE [key |-> "id", value |-> idOrName.value]

\* the query parameter getProfiles sends for an id or a name
getProfilesParams(idOrName) ==
    IF idOrName.type = "number"
    THEN [key |-> "id", value |-> NumberToString(idOrName.value)]
    ELSE [key |-> "name", value |-> idOrName.value]

\* getProfiles forgetting the query parameters
getProfilesRequest_noParams(idOrName) ==
    HttpRequest("GET", <<"profiles">>, Undefined, Undefined)

\* the request getProfiles issues
getProfilesRequest(idOrName) ==
    IF idOrName.type # "undefined"
    THEN HttpRequest("GET", <<"profiles">>, getProfilesParams(idOrName), Undefined)
    ELSE HttpRequest("GET", <<"profiles">>, Undefined, Undefined)

\* what getProfiles returns for the response body r
getProfilesResult(idOrName, r) ==
    IF idOrName.type # "undefined"
    THEN IF Len(r) = 0 THEN Undefined ELSE r[1]
    ELSE r

\* the request createProfile issues
createProfileRequest(profile) ==
    HttpRequest("POST", <<"profiles">>, Undefined, profile)

\* the request updateProfile issues (profile is an object)
updateProfileRequest(profile) ==
    HttpRequest("PUT", <<"profiles", NumberToString(profile.id)>>, Undefined, profile)

\* the request deleteProfile issues
deleteProfileRequest(profileId) ==
    LET id == IF profileId.type = "number" THEN profileId.value ELSE profileId.value.id
    IN  HttpRequest("DELETE", <<"profiles", NumberToString(id)>>, Undefined, Undefined)

\* the request CDNService.getCDNs issues
getCDNsRequest == HttpRequest("GET", <<"cdns">>, Undefined, Undefined)

\* ------------------------------------------------------------- server
\* the profiles of srv, in the order of their ids
RECURSIVE ProfileList(_)
ProfileList(srv) ==
    IF DOMAIN srv = {} THEN <<>>
    ELSE LET m == CHOOSE i \in DOMAIN srv : \A j \in DOMAIN srv : i <= j
         IN  <<srv[m]>> \o ProfileList([i \in DOMAIN srv \ {m} |-> srv[i]])

ServerReply(ok, data, srv, nid) ==
    [ok |-> ok, data |-> data, server |-> srv, nextId |-> nid]

\* GET profiles: every profile, or those with the id or the name asked for;
\* an id that is no integer is refused or matches nothing
ServeGetProfiles(req, srv, nid) ==
    LET all == ProfileList(srv)
        ById(p) == p.id = Number(req.params.value)
        ByName(p) == p.name = req.params.value
    IN  IF req.params = Undefined THEN {ServerReply(TRUE, all, srv, nid)}
        ELSE IF req.params.key = "name"
        THEN {ServerReply(TRUE, SelectSeq(all, ByName), srv, nid)}
        ELSE IF req.params.value = <<>> \/ Number(req.params.value) = NaN
        THEN {ServerReply(TRUE, <<>>, srv, nid), ServerReply(FALSE, Undefined, srv, nid)}
        ELSE {ServerReply(TRUE, SelectSeq(all, ById), srv, nid)}

\* POST profiles: the body is stored under a fresh id and returned
ServePost(req, srv, nid) ==
    LET p == [req.body EXCEPT !.id = nid]
    IN  {ServerReply(TRUE, p, srv @@ (nid :> p), nid + 1)}

\* PUT profiles/{id}: the body replaces the profile of that id and is returned
ServePut(req, srv, nid) ==
    LET id == Number(req.path[2])
        p == [req.body EXCEPT !.id = id]
    IN  IF id \in DOMAIN srv
        THEN {ServerReply(TRUE, p, [srv EXCEPT ![id] = p], nid)}
        ELSE {ServerReply(FALSE, Undefined, srv, nid)}

\* DELETE profiles/{id}: the profile of that id is removed
ServeDelete(req, srv, nid) ==
    LET id == Number(req.path[2])
    IN  IF id \in DOMAIN srv
        THEN {ServerReply(TRUE, Undefined, [i \in DOMAIN srv \ {id} |-> srv[i]], nid)}
        ELSE {ServerReply(FALSE, Undefined, srv, nid)}

\* the outcomes of a request: what the server does with it, or a failure
\* (network error, non-2xx status) that leaves the server as it is
Serve(req, srv, nid) ==
    {ServerReply(FALSE, Undefined, srv, nid)} \cup
    CASE req.method = "GET" /\ req.path = <<"cdns">> -> {ServerReply(TRUE, CDNS, srv, nid)}
      [] req.method = "GET" /\ req.path = <<"profiles">> -> ServeGetProfiles(req, srv, nid)
      [] req.method = "POST" -> ServePost(req, srv, nid)
      [] req.method = "PUT" -> ServePut(req, srv, nid)
      [] req.method = "DELETE" -> ServeDelete(req, srv, nid)

\* -------------------------------------------------------------- state
VARIABLES
    \* ProfileDetailComponent
    new,            \* this.new
    profile,        \* this.profile (Undefined until assigned)
    cdns,           \* this.cdns (Undefined until assigned)
    pc,             \* where ngOnInit stands
    dialogs,        \* confirmation dialogs that are open
    \* its surroundings
    routeId,        \* route.snapshot.paramMap.get("id")
    headerTitle,    \* the last title sent to navSvc.headerTitle
    location,       \* the view the router shows
    inflight,       \* HTTP requests awaiting their response, oldest first
    server,         \* the profiles the server holds, by id
    nextId,         \* the id the server gives the next profile it creates
    \* record of what happened
    nextCall,       \* number of the next handler invocation
    sent,           \* every request issued so far, in order
    resolved,       \* the requests answered with success
    rejected,       \* the invocations that ended with an error
    submits,        \* invocations of submit
    deletes,        \* invocations of deleteType
    confirms,       \* dialogs closed with a truthy result
    navigations,    \* calls of router.navigate(["/core/profiles"])
    \* callers of ProfileService other than the form
    svcResult,      \* what the last direct call of getProfiles returned
    \* the router and the core module's routes
    authenticated,  \* whether the user is logged in
    activated,      \* the core route the router activated last
    refused,        \* the URL whose activation a guard refused last
    \* the CDN detail form
    form            \* the values of its fields (Undefined until it is shown)

vars == <<new, profile, cdns, pc, dialogs, routeId, headerTitle, location, inflight,
          server, nextId, nextCall, sent, resolved, rejected, submits, deletes,
          confirms, navigations, svcResult, authenticated, activated, refused, form>>

routerVars == <<authenticated, activated, refused>>
formVars == <<form>>

compVars == <<new, profile, cdns, pc, dialogs, headerTitle, location>>
histVars == <<submits, deletes, confirms, navigations>>

DetailView == "/core/profiles/:id"
ListView == "/core/profiles"

\* the invocation number of ngOnInit
InitCall == 0

\* a request in flight: the HTTP request, with the invocation that awaits it,
\* the operation that continues on its response and that operation's argument
Pending(call, op, arg, req) ==
    [call |-> call, op |-> op, arg |-> arg, req |-> req]

\* s without its i-th element
RemoveAt(s, i) == SubSeq(s, 1, i - 1) \o SubSeq(s, i + 1, Len(s))

Done(p) == [call |-> p.call, op |-> p.op]

Init ==
    /\ new = FALSE
    /\ profile = Undefined
    /\ cdns = Undefined
    /\ pc = "created"
    /\ dialogs = 0
    /\ routeId \in RouteIds
    /\ headerTitle = Undefined
    /\ location = DetailView
    /\ inflight = <<>>
    /\ server = InitialServer
    /\ nextId = InitialNextId
    /\ nextCall = 1
    /\ sent = <<>>
    /\ resolved = {}
    /\ rejected = {}
    /\ submits = 0
    /\ deletes = 0
    /\ confirms = 0
    /\ navigations = 0
    /\ svcResult = Undefined
    /\ authenticated = FALSE
    /\ activated = Undefined
    /\ refused = Undefined
    /\ form = Undefined

\* issue request req for invocation call, to be continued by op
Issue(call, op, arg, req) ==
    /\ inflight' = Append(inflight, Pending(call, op, arg, req))
    /\ sent' = Append(sent, Pending(call, op, arg, req))

\* the i-th request in flight is answered by reply
Answered(i, reply) ==
    /\ i \in 1..Len(inflight)
    /\ reply \in Serve(inflight[i].req, server, nextId)
    /\ server' = reply.server
    /\ nextId' = reply.nextId

\* ----------------------------------------- ProfileDetailComponent.ngOnInit
\* ngOnInit requesting the CDNs and the profile together, awaiting both
NgOnInit_parallel ==
    /\ pc = "created"
    /\ pc' = "awaitCDNs"
    /\ LET a == Pending(InitCall, "ngOnInit.getCDNs", NoArg, getCDNsRequest)
           b == Pending(InitCall, "ngOnInit.getProfiles", NumArg(Number(routeId)),
                        getProfilesRequest(NumArg(Number(routeId))))
       IN  /\ inflight' = inflight \o <<a, b>>
           /\ sent' = sent \o <<a, b>>
    /\ UNCHANGED <<new, profile, cdns, dialogs, routeId, headerTitle, location, server,
                   nextId, nextCall, resolved, rejected, histVars, svcResult, routerVars,
                   formVars>>

\* ngOnInit up to its first await: the CDNs are requested
NgOnInit ==
    /\ pc = "created"
    /\ pc' = "awaitCDNs"
    /\ Issue(InitCall, "ngOnInit.getCDNs", NoArg, getCDNsRequest)
    /\ UNCHANGED <<new, profile, cdns, dialogs, routeId, headerTitle, location, server,
                   nextId, nextCall, resolved, rejected, histVars, svcResult, routerVars, formVars>>

\* ngOnInit throws: its promise is rejected
Thrown == [call |-> InitCall, op |-> "ngOnInit"]

\* the argument ngOnInit passes to getProfiles
ProfileIdArg(id) == NumArg(Number(id))

\* ngOnInit from the answer of getCDNs to its end or its second await
NgOnInitCDNs ==
    \E i \in 1..Len(inflight) : \E reply \in Serve(inflight[i].req, server, nextId) :
        /\ inflight[i].op = "ngOnInit.getCDNs"
        /\ reply.ok
        /\ Answered(i, reply)
        /\ resolved' = resolved \cup {Done(inflight[i])}
        /\ cdns' = reply.data
        /\ IF routeId = Null
           THEN /\ pc' = "failed"
                /\ rejected' = rejected \cup {Thrown}
                /\ inflight' = RemoveAt(inflight, i)
                /\ UNCHANGED <<new, profile, headerTitle, sent>>
           ELSE IF routeId = NewId
           THEN /\ new' = TRUE
                /\ headerTitle' = <<"New Profile">>
                /\ profile' = EmptyProfile
                /\ pc' = "done"
                /\ inflight' = RemoveAt(inflight, i)
                /\ UNCHANGED <<rejected, sent>>
           ELSE IF parseInt(routeId) = NaN
           THEN /\ pc' = "failed"
                /\ rejected' = rejected \cup {Thrown}
                /\ inflight' = RemoveAt(inflight, i)
                /\ UNCHANGED <<new, profile, headerTitle, sent>>
           ELSE LET p == Pending(InitCall, "ngOnInit.getProfiles", ProfileIdArg(routeId),
                                 getProfilesRequest(ProfileIdArg(routeId)))
                IN  /\ pc' = "awaitProfile"
                    /\ inflight' = Append(RemoveAt(inflight, i), p)
                    /\ sent' = Append(sent, p)
                    /\ UNCHANGED <<new, profile, headerTitle, rejected>>
        /\ UNCHANGED <<dialogs, routeId, location, nextCall, histVars, svcResult, routerVars, formVars>>

\* ngOnInit from the answer of getProfiles to its end; reading the name of an
\* undefined profile throws
NgOnInitProfile ==
    \E i \in 1..Len(inflight) : \E reply \in Serve(inflight[i].req, server, nextId) :
        /\ inflight[i].op = "ngOnInit.getProfiles"
        /\ reply.ok
        /\ Answered(i, reply)
        /\ inflight' = RemoveAt(inflight, i)
        /\ resolved' = resolved \cup {Done(inflight[i])}
        /\ profile' = getProfilesResult(inflight[i].arg, reply.data)
        /\ IF profile' = Undefined
           THEN /\ pc' = "failed"
                /\ rejected' = rejected \cup {Thrown}
                /\ UNCHANGED headerTitle
           ELSE /\ pc' = "done"
                /\ headerTitle' = <<"Profile: ", profile'.name>>
                /\ UNCHANGED rejected
        /\ UNCHANGED <<new, cdns, dialogs, routeId, location, nextCall, sent, histVars,
                       svcResult, routerVars, formVars>>

\* an await of ngOnInit throws: the request failed
NgOnInitRejected ==
    \E i \in 1..Len(inflight) : \E reply \in Serve(inflight[i].req, server, nextId) :
        /\ inflight[i].op \in {"ngOnInit.getCDNs", "ngOnInit.getProfiles"}
        /\ ~reply.ok
        /\ Answered(i, reply)
        /\ inflight' = RemoveAt(inflight, i)
        /\ rejected' = rejected \cup {Done(inflight[i])}
        /\ pc' = "failed"
        /\ UNCHANGED <<new, profile, cdns, dialogs, routeId, headerTitle, location,
                       nextCall, sent, resolved, histVars, svcResult, routerVars, formVars>>

\* ------------------------------------------- ProfileDetailComponent.submit
\* submit with its test of this.new inverted
submitCall_inverted(isNew, prof) ==
    IF ~isNew
    THEN [op |-> "submit.createProfile", req |-> createProfileRequest(prof)]
    ELSE [op |-> "submit.updateProfile", req |-> updateProfileRequest(prof)]

\* the service call submit makes: createProfile when new, updateProfile otherwise
submitCall(isNew, prof) ==
    IF isNew
    THEN [op |-> "submit.createProfile", req |-> createProfileRequest(prof)]
    ELSE [op |-> "submit.updateProfile", req |-> updateProfileRequest(prof)]

\* submit up to its await (the form exists once Angular has called ngOnInit);
\* updateProfile reads profile.id, which throws when no profile was assigned yet
Submit ==
    /\ pc # "created"
    /\ location = DetailView
    /\ submits + deletes < MaxActions
    /\ submits' = submits + 1
    /\ nextCall' = nextCall + 1
    /\ IF ~new /\ profile = Undefined
       THEN /\ rejected' = rejected \cup {[call |-> nextCall, op |-> "submit"]}
            /\ UNCHANGED <<inflight, sent>>
       ELSE /\ Issue(nextCall, submitCall(new, profile).op, ObjArg(profile),
                     submitCall(new, profile).req)
            /\ UNCHANGED rejected
    /\ UNCHANGED <<compVars, routeId, server, nextId, resolved, deletes, confirms,
                   navigations, svcResult, routerVars, formVars>>

\* submit after createProfile resolved
SubmitCreated ==
    \E i \in 1..Len(inflight) : \E reply \in Serve(inflight[i].req, server, nextId) :
        /\ inflight[i].op = "submit.createProfile"
        /\ reply.ok
        /\ Answered(i, reply)
        /\ inflight' = RemoveAt(inflight, i)
        /\ resolved' = resolved \cup {Done(inflight[i])}
        /\ profile' = reply.data
        /\ new' = FALSE
        /\ UNCHANGED <<cdns, pc, dialogs, routeId, headerTitle, location, nextCall, sent,
                       rejected, histVars, svcResult, routerVars, formVars>>

\* submit after updateProfile resolved
SubmitUpdated ==
    \E i \in 1..Len(inflight) : \E reply \in Serve(inflight[i].req, server, nextId) :
        /\ inflight[i].op = "submit.updateProfile"
        /\ reply.ok
        /\ Answered(i, reply)
        /\ inflight' = RemoveAt(inflight, i)
        /\ resolved' = resolved \cup {Done(inflight[i])}
        /\ profile' = reply.data
        /\ UNCHANGED <<new, cdns, pc, dialogs, routeId, headerTitle, location, nextCall,
                       sent, rejected, histVars, svcResult, routerVars, formVars>>

\* submit leaving the new state although its request failed
SubmitRejected_leavesNew ==
    \E i \in 1..Len(inflight) : \E reply \in Serve(inflight[i].req, server, nextId) :
        /\ inflight[i].op \in {"submit.createProfile", "submit.updateProfile"}
        /\ ~reply.ok
        /\ Answered(i, reply)
        /\ inflight' = RemoveAt(inflight, i)
        /\ rejected' = rejected \cup {Done(inflight[i])}
        /\ new' = FALSE
        /\ UNCHANGED <<profile, cdns, pc, dialogs, headerTitle, location, routeId,
                       nextCall, sent, resolved, histVars, svcResult, routerVars, formVars>>

\* the await of submit throws: the promise submit returned is rejected
SubmitRejected ==
    \E i \in 1..Len(inflight) : \E reply \in Serve(inflight[i].req, server, nextId) :
        /\ inflight[i].op \in {"submit.createProfile", "submit.updateProfile"}
        /\ ~reply.ok
        /\ Answered(i, reply)
        /\ inflight' = RemoveAt(inflight, i)
        /\ rejected' = rejected \cup {Done(inflight[i])}
        /\ UNCHANGED <<compVars, routeId, nextCall, sent, resolved, histVars, svcResult, routerVars, formVars>>

\* --------------------------------------- ProfileDetailComponent.deleteType
\* deleteType without the early return for a new record
DeleteType_noNewCheck ==
    /\ pc # "created"
    /\ location = DetailView
    /\ submits + deletes < MaxActions
    /\ deletes' = deletes + 1
    /\ nextCall' = nextCall + 1
    /\ IF profile = Undefined
       THEN /\ rejected' = rejected \cup {[call |-> nextCall, op |-> "deleteType"]}
            /\ UNCHANGED dialogs
       ELSE /\ dialogs' = dialogs + 1
            /\ UNCHANGED rejected
    /\ UNCHANGED <<new, profile, cdns, pc, routeId, headerTitle, location, inflight,
                   server, nextId, sent, resolved, submits, confirms, navigations,
                   svcResult, routerVars, formVars>>

\* deleteType: nothing for a new record; otherwise the confirmation dialog is
\* opened (its message reads profile.name, which throws without a profile)
DeleteType ==
    /\ pc # "created"
    /\ location = DetailView
    /\ submits + deletes < MaxActions
    /\ deletes' = deletes + 1
    /\ nextCall' = nextCall + 1
    /\ IF new
       THEN UNCHANGED <<dialogs, rejected>>
       ELSE IF profile = Undefined
       THEN /\ rejected' = rejected \cup {[call |-> nextCall, op |-> "deleteType"]}
            /\ UNCHANGED dialogs
       ELSE /\ dialogs' = dialogs + 1
            /\ UNCHANGED rejected
    /\ UNCHANGED <<new, profile, cdns, pc, routeId, headerTitle, location, inflight,
                   server, nextId, sent, resolved, submits, confirms, navigations,
                   svcResult, routerVars, formVars>>

\* the subscriber of afterClosed ignoring the dialog's result
deletesOnResult_always(result) == TRUE

\* whether the subscriber of afterClosed calls deleteProfile
deletesOnResult(result) == result

\* a dialog closes with result: the subscriber of afterClosed runs
DialogClosed ==
    \E result \in BOOLEAN :
        /\ dialogs > 0
        /\ dialogs' = dialogs - 1
        /\ IF deletesOnResult(result)
           THEN /\ Issue(nextCall, "deleteType.deleteProfile", NumArg(profile.id),
                         deleteProfileRequest(NumArg(profile.id)))
                /\ nextCall' = nextCall + 1
           ELSE UNCHANGED <<inflight, sent, nextCall>>
        /\ confirms' = IF result THEN confirms + 1 ELSE confirms
        /\ UNCHANGED <<new, profile, cdns, pc, routeId, headerTitle, location, server,
                       nextId, resolved, rejected, submits, deletes, navigations,
                       svcResult, routerVars, formVars>>

\* deleteProfile resolved: the router navigates to the list of profiles
DeleteDone ==
    \E i \in 1..Len(inflight) : \E reply \in Serve(inflight[i].req, server, nextId) :
        /\ inflight[i].op = "deleteType.deleteProfile"
        /\ reply.ok
        /\ Answered(i, reply)
        /\ inflight' = RemoveAt(inflight, i)
        /\ resolved' = resolved \cup {Done(inflight[i])}
        /\ navigations' = navigations + 1
        /\ location' = ListView
        /\ UNCHANGED <<new, profile, cdns, pc, dialogs, routeId, headerTitle, nextCall,
                       sent, rejected, submits, deletes, confirms, svcResult, routerVars, formVars>>

\* deleteProfile rejected: nothing handles it
DeleteRejected ==
    \E i \in 1..Len(inflight) : \E reply \in Serve(inflight[i].req, server, nextId) :
        /\ inflight[i].op = "deleteType.deleteProfile"
        /\ ~reply.ok
        /\ Answered(i, reply)
        /\ inflight' = RemoveAt(inflight, i)
        /\ rejected' = rejected \cup {Done(inflight[i])}
        /\ UNCHANGED <<compVars, routeId, nextCall, sent, resolved, histVars, svcResult, routerVars, formVars>>

\* ------------------------------------------------------------ the form
\* the user types a name into the field bound to profile.name
EditName ==
    \E n \in Names :
        /\ location = DetailView
        /\ profile # Undefined
        /\ profile' = [profile EXCEPT !.name = n]
        /\ UNCHANGED <<new, cdns, pc, dialogs, routeId, headerTitle, location, inflight,
                       server, nextId, nextCall, sent, resolved, rejected, histVars,
                       svcResult, routerVars, formVars>>

Next ==
    \/ NgOnInit
    \/ NgOnInitCDNs
    \/ NgOnInitProfile
    \/ NgOnInitRejected
    \/ Submit
    \/ SubmitCreated
    \/ SubmitUpdated
    \/ SubmitRejected
    \/ DeleteType
    \/ DialogClosed
    \/ DeleteDone
    \/ DeleteRejected
    \/ EditName

Spec == Init /\ [][Next]_vars

\* ------------------------------------- ProfileService called directly
\* calls of the service made by callers other than the form
MaxSvcCalls == 2

\* ids and names the callers ask for
SvcIds == {2, 7, 20, 21}
SvcNames == {"test", "edge", "none"}

InitService == Init /\ routeId = Null

\* whether a further call may be made
CanCall == nextCall <= MaxSvcCalls

\* a caller invokes a method of the service, which issues req
SvcCall(op, arg, req) ==
    /\ nextCall' = nextCall + 1
    /\ Issue(nextCall, op, arg, req)
    /\ UNCHANGED <<compVars, routeId, server, nextId, resolved, rejected, histVars,
                   svcResult, routerVars, formVars>>

GetProfilesById ==
    \E n \in SvcIds :
        LET a == NumArg(n)
        IN  /\ CanCall
            /\ SvcCall("getProfiles", a, getProfilesRequest(a))

GetProfilesByName ==
    \E n \in SvcNames :
        LET a == StrArg(n)
        IN  /\ CanCall
            /\ SvcCall("getProfiles", a, getProfilesRequest(a))

GetProfilesAll ==
    LET a == NoArg
    IN  /\ CanCall
        /\ SvcCall("getProfiles", a, getProfilesRequest(a))

CreateProfile ==
    \E n \in Names :
        LET p == Profile(-1, n, "")
        IN  /\ CanCall
            /\ SvcCall("createProfile", ObjArg(p), createProfileRequest(p))

UpdateProfile ==
    \E id \in DOMAIN server : \E n \in Names :
        LET p == [server[id] EXCEPT !.name = n]
        IN  /\ CanCall
            /\ SvcCall("updateProfile", ObjArg(p), updateProfileRequest(p))

DeleteProfileById ==
    \E id \in SvcIds :
        LET a == NumArg(id)
        IN  /\ CanCall
            /\ SvcCall("deleteProfile", a, deleteProfileRequest(a))

DeleteProfileByObject ==
    \E id \in DOMAIN server :
        LET a == ObjArg(server[id])
        IN  /\ CanCall
            /\ SvcCall("deleteProfile", a, deleteProfileRequest(a))

\* getProfiles resolves: the caller receives its result
GetProfilesResolved ==
    \E i \in 1..Len(inflight) : \E reply \in Serve(inflight[i].req, server, nextId) :
        /\ inflight[i].op = "getProfiles"
        /\ reply.ok
        /\ Answered(i, reply)
        /\ inflight' = RemoveAt(inflight, i)
        /\ resolved' = resolved \cup {Done(inflight[i])}
        /\ svcResult' = [arg |-> inflight[i].arg,
                         response |-> reply.data,
                         result |-> getProfilesResult(inflight[i].arg, reply.data),
                         server |-> server]
        /\ UNCHANGED <<compVars, routeId, nextCall, sent, rejected, histVars, routerVars,
                       formVars>>

\* createProfile, updateProfile or deleteProfile resolves
SvcResolved ==
    \E i \in 1..Len(inflight) : \E reply \in Serve(inflight[i].req, server, nextId) :
        /\ inflight[i].op \in {"createProfile", "updateProfile", "deleteProfile"}
        /\ reply.ok
        /\ Answered(i, reply)
        /\ inflight' = RemoveAt(inflight, i)
        /\ resolved' = resolved \cup {Done(inflight[i])}
        /\ UNCHANGED <<compVars, routeId, nextCall, sent, rejected, histVars, svcResult,
                       routerVars, formVars>>

\* a call of the service is rejected: its request failed
SvcRejected ==
    \E i \in 1..Len(inflight) : \E reply \in Serve(inflight[i].req, server, nextId) :
        /\ inflight[i].op \in {"getProfiles", "createProfile", "updateProfile",
                               "deleteProfile"}
        /\ ~reply.ok
        /\ Answered(i, reply)
        /\ inflight' = RemoveAt(inflight, i)
        /\ rejected' = rejected \cup {Done(inflight[i])}
        /\ UNCHANGED <<compVars, routeId, nextCall, sent, resolved, histVars, svcResult,
                       routerVars, formVars>>

NextService ==
    \/ GetProfilesById
    \/ GetProfilesByName
    \/ GetProfilesAll
    \/ CreateProfile
    \/ UpdateProfile
    \/ DeleteProfileById
    \/ DeleteProfileByObject
    \/ GetProfilesResolved
    \/ SvcResolved
    \/ SvcRejected

SpecService == InitService /\ [][NextService]_vars

\* --------------------------------------------------- core module routes
\* a route of the table: a component and a path, the path by its segments
Route(component, path) == [component |-> component, path |-> path]

\* the literal array that is mapped to ROUTES
RouteTable ==
    <<
        Route("DashboardComponent", <<>>),
        Route("AsnDetailComponent", <<"asns", ":id">>),
        Route("AsnsTableComponent", <<"asns">>),
        Route("DivisionsTableComponent", <<"divisions">>),
        Route("DivisionDetailComponent", <<"divisions", ":id">>),
        Route("RegionsTableComponent", <<"regions">>),
        Route("RegionDetailComponent", <<"regions", ":id">>),
        Route("UsersComponent", <<"users">>),
        Route("UserDetailsComponent", <<"users", ":id">>),
        Route("CDNDetailComponent", <<"cdns", ":id">>),
        Route("ServersTableComponent", <<"servers">>),
        Route("ServerDetailsComponent", <<"servers", ":id">>),
        Route("DeliveryserviceComponent", <<"deliveryservice", ":id">>),
        Route("InvalidationJobsComponent", <<"deliveryservice", ":id", "invalidation-jobs">>),
        Route("CurrentuserComponent", <<"me">>),
        Route("NewDeliveryServiceComponent", <<"new.Delivery.Service">>),
        Route("CacheGroupTableComponent", <<"cache-groups">>),
        Route("CacheGroupDetailsComponent", <<"cache-groups", ":id">>),
        Route("TenantsComponent", <<"tenants">>),
        Route("ChangeLogsComponent", <<"change-logs">>),
        Route("TenantDetailsComponent", <<"tenants", ":id">>),
        Route("PhysLocDetailComponent", <<"phys-locs", ":id">>),
        Route("PhysLocTableComponent", <<"phys-locs">>),
        Route("CoordinateDetailComponent", <<"coordinates", ":id">>),
        Route("CoordinatesTableComponent", <<"coordinates">>),
        Route("TypesTableComponent", <<"types">>),
        Route("TypeDetailComponent", <<"types", ":id">>),
        Route("ISOGenerationFormComponent", <<"iso-gen">>),
        Route("ProfileDetailComponent", <<"profiles", ":id">>),
        Route("ProfileTableComponent", <<"profiles">>)
    >>

AuthenticatedGuard == "AuthenticatedGuard"

\* the map that adds the guard, applied to all routes but the two of profiles
ROUTES_profilesUnguarded ==
    [i \in DOMAIN RouteTable |->
        IF i <= Len(RouteTable) - 2
        THEN [canActivate |-> <<AuthenticatedGuard>>] @@ RouteTable[i]
        ELSE RouteTable[i]]

\* ROUTES: every route of the table with canActivate: [AuthenticatedGuard]
ROUTES ==
    [i \in DOMAIN RouteTable |-> [canActivate |-> <<AuthenticatedGuard>>] @@ RouteTable[i]]

\* the guards of a route (a route without canActivate has none)
Guards(r) == IF "canActivate" \in DOMAIN r THEN r.canActivate ELSE <<>>

\* values of the :id segment in the URLs tried
ParamValues == {"2", "new"}

\* the path with v for each of its parameters
Instantiate(path, v) ==
    [k \in DOMAIN path |-> IF path[k] = ":id" THEN v ELSE path[k]]

\* the URLs navigated to, relative to the module: one per route and value of
\* its parameter, and one that no route matches
URLs ==
    {Instantiate(RouteTable[i].path, v) : i \in DOMAIN RouteTable, v \in ParamValues}
        \cup {<<"login">>}

\* a route without children matches a URL of as many segments, each equal to
\* the path's or standing for a parameter
Matches(path, url) ==
    /\ Len(path) = Len(url)
    /\ \A k \in DOMAIN path : path[k] = ":id" \/ path[k] = url[k]

\* the index of the first route that matches url, 0 when there is none
MatchRoute(url) ==
    IF \E i \in DOMAIN ROUTES : Matches(ROUTES[i].path, url)
    THEN CHOOSE i \in DOMAIN ROUTES :
            /\ Matches(ROUTES[i].path, url)
            /\ \A j \in DOMAIN ROUTES : Matches(ROUTES[j].path, url) => i <= j
    ELSE 0

\* what a guard answers: AuthenticatedGuard lets authenticated users pass
CanActivate(guard) == guard # AuthenticatedGuard \/ authenticated

InitRoutes == Init /\ routeId = Null

Login ==
    /\ ~authenticated
    /\ authenticated' = TRUE
    /\ UNCHANGED <<compVars, routeId, inflight, server, nextId, nextCall, sent, resolved,
                   rejected, histVars, svcResult, activated, refused, formVars>>

Logout ==
    /\ authenticated
    /\ authenticated' = FALSE
    /\ UNCHANGED <<compVars, routeId, inflight, server, nextId, nextCall, sent, resolved,
                   rejected, histVars, svcResult, activated, refused, formVars>>

\* the router is asked for url: the matching route's component is activated
\* when every guard of the route lets the user pass
Navigate ==
    \E url \in URLs :
        LET i == MatchRoute(url)
        IN  /\ i # 0
            /\ IF \A k \in DOMAIN Guards(ROUTES[i]) : CanActivate(Guards(ROUTES[i])[k])
               THEN /\ activated' = [component |-> ROUTES[i].component, url |-> url]
                    /\ UNCHANGED refused
               ELSE /\ refused' = url
                    /\ UNCHANGED activated
            /\ UNCHANGED <<compVars, routeId, inflight, server, nextId, nextCall, sent,
                           resolved, rejected, histVars, svcResult, authenticated,
                           formVars>>

NextRoutes ==
    \/ Login
    \/ Logout
    \/ Navigate

SpecRoutes == InitRoutes /\ [][NextRoutes]_vars

\* -------------------------------------------------------- CDN detail form
\* longest text typed into a field
MaxFieldLen == 2

\* characters typed into the fields
FieldChars == {"a", "-", "_", "^"}

FieldStrings == UNION {[1..k -> FieldChars] : k \in 0..MaxFieldLen}

\* the characters the pattern of each field rejects
InvalidChars(field) ==
    IF field = "name" THEN {"-", "_", "^"} ELSE {"-"}

\* a pattern that lets "-" pass in every field
checkValidity_dashAllowed(field, value) ==
    \A k \in DOMAIN value : value[k] \notin (InvalidChars(field) \ {"-"})

\* HTMLInputElement.checkValidity for the field holding value
checkValidity(field, value) ==
    \A k \in DOMAIN value : value[k] \notin InvalidChars(field)

InitForm == Init /\ routeId = NewId

\* the form is shown for a new CDN, its fields empty
OpenNewForm ==
    /\ form = Undefined
    /\ form' = [name |-> <<>>, domainName |-> <<>>, nameValid |-> checkValidity("name", <<>>),
                domainNameValid |-> checkValidity("domainName", <<>>)]
    /\ UNCHANGED <<compVars, routeId, inflight, server, nextId, nextCall, sent, resolved,
                   rejected, histVars, svcResult, routerVars>>

\* a value is set in the name field
SetName ==
    \E v \in FieldStrings :
        /\ form # Undefined
        /\ form' = [form EXCEPT !.name = v, !.nameValid = checkValidity("name", v)]
        /\ UNCHANGED <<compVars, routeId, inflight, server, nextId, nextCall, sent,
                       resolved, rejected, histVars, svcResult, routerVars>>

\* a value is set in the domain name field
SetDomainName ==
    \E v \in FieldStrings :
        /\ form # Undefined
        /\ form' = [form EXCEPT !.domainName = v,
                                !.domainNameValid = checkValidity("domainName", v)]
        /\ UNCHANGED <<compVars, routeId, inflight, server, nextId, nextCall, sent,
                       resolved, rejected, histVars, svcResult, routerVars>>

NextForm ==
    \/ OpenNewForm
    \/ SetName
    \/ SetDomainName

SpecForm == InitForm /\ [][NextForm]_vars

\* ============================================================== claims
\* the positions in `sent` of the requests that fetch a profile
ProfileFetches ==
    {i \in DOMAIN sent : sent[i].req.method = "GET" /\ sent[i].req.path = <<"profiles">>}

\* the step in which ngOnInit completes
InitCompletes == pc # "done" /\ pc' = "done"

\* C1: when ngOnInit completes with the route parameter "new", new is true,
\* the working record is the empty record (name "", description "", id -1),
\* and no request that fetches a profile has been issued.
C1_NewRecordInit ==
    [][InitCompletes /\ routeId = NewId =>
          /\ new' = TRUE
          /\ profile' = EmptyProfile
          /\ profile'.name = "" /\ profile'.description = "" /\ profile'.id = -1
          /\ ProfileFetches' = {}]_vars

C1_Witness ==
    /\ pc = "done" /\ routeId = NewId
    /\ new = TRUE /\ profile = EmptyProfile /\ ProfileFetches = {}

\* whether the route parameter s is the text of a number
IsNumeric(s) == s \notin {Null, NewId, <<>>} /\ Number(s) # NaN

\* C2: when ngOnInit completes with a numeric route parameter, new is false and
\* the working record is the server's record whose id is that number; with
\* such a record on the server, an answered fetch always completes ngOnInit.
C2_ExistingRecordInit ==
    [][/\ InitCompletes /\ IsNumeric(routeId) =>
            /\ new' = FALSE
            /\ Number(routeId) \in DOMAIN server
            /\ profile' = server[Number(routeId)]
            /\ profile'.id = Number(routeId)
       /\ pc = "awaitProfile" /\ pc' = "failed" /\ resolved' # resolved =>
            Number(routeId) \notin DOMAIN server]_vars

C2_Witness ==
    /\ pc = "done" /\ routeId = <<"0", "2">> /\ submits = 0
    /\ new = FALSE /\ profile.id = 2 /\ server[2].id = 2

\* the successful creates so far
Creates == {r \in resolved : r.op = "submit.createProfile"}

\* the step is a call of submit
SubmitCalled == submits' = submits + 1

\* the request the step issued
Issued == sent'[Len(sent')]

\* the request a call of submit issues: a POST to profiles when new, a PUT to
\* profiles/{id} of the working record otherwise
SubmitPostsIffNew ==
    SubmitCalled /\ (new \/ profile # Undefined) =>
        /\ Len(sent') = Len(sent) + 1
        /\ Issued.req.body = profile
        /\ IF new
           THEN Issued.req.method = "POST" /\ Issued.req.path = <<"profiles">>
           ELSE /\ Issued.req.method = "PUT"
                /\ Issued.req.path = <<"profiles", NumberToString(profile.id)>>

\* a create that succeeds leaves the new state: new becomes false and the
\* working record is the record the server created
CreateLeavesNew ==
    Creates' # Creates =>
        /\ new' = FALSE
        /\ profile' = server'[nextId]
        /\ profile'.id = nextId

\* after a create has succeeded, new stays false and submit issues no POST
NoPostAfterCreate ==
    Creates # {} =>
        /\ new' = FALSE
        /\ SubmitCalled => Issued.req.method = "PUT"

\* C3 as stated: submit POSTs exactly when new and PUTs otherwise, a successful
\* create leaves the new state, and a record is never created a second time.
C3_Original ==
    /\ [][SubmitPostsIffNew /\ CreateLeavesNew /\ NoPostAfterCreate]_vars
    /\ [](Cardinality(Creates) <= 1)

\* C3, amended: submit POSTs exactly when new is true as it is called, PUTs to
\* profiles/{id} when new is false and a working record is held, and issues
\* nothing without a working record; a successful create leaves the new state,
\* and every submit called after it is a PUT.  (A submit called while an earlier
\* create is still unanswered POSTs again.)
C3_SubmitCreateOrUpdate ==
    [][/\ SubmitPostsIffNew
       /\ SubmitCalled /\ ~new /\ profile = Undefined => sent' = sent
       /\ CreateLeavesNew
       /\ NoPostAfterCreate]_vars

C3_Witness ==
    /\ Cardinality(Creates) = 1 /\ new = FALSE /\ profile.id = InitialNextId
    /\ \E i \in DOMAIN sent : sent[i].op = "submit.updateProfile"
    /\ sent[Len(sent)].req.path = <<"profiles", NumberToString(InitialNextId)>>

\* the DELETE requests issued, and those answered with success
DeletesSent == {i \in DOMAIN sent : sent[i].req.method = "DELETE"}
DeletesResolved == {r \in resolved : r.op = "deleteType.deleteProfile"}

\* C4: a DELETE is issued only for a dialog closed with a truthy result, and
\* the router navigates to the list only for a DELETE that succeeded; a
\* declined dialog issues neither.
C4_ConfirmDeleteNavigate ==
    /\ Cardinality(DeletesSent) = confirms
    /\ navigations = Cardinality(DeletesResolved)
    /\ Cardinality(DeletesResolved) <= Cardinality(DeletesSent)
    /\ location = ListView <=> navigations > 0
    /\ confirms + dialogs <= deletes

C4_Witness ==
    /\ confirms = 1 /\ Cardinality(DeletesSent) = 1
    /\ Cardinality(DeletesResolved) = 1 /\ navigations = 1 /\ location = ListView

\* C5 as stated: at most one request of the component is in flight.
C5_Original == Len(inflight) <= 1

\* C5, amended: each invocation of ngOnInit, submit or deleteType has at most
\* one request of its own in flight; requests of different invocations may be
\* in flight together.
C5_OneRequestPerInvocation ==
    \A i, j \in DOMAIN inflight : inflight[i].call = inflight[j].call => i = j

C5_Witness ==
    /\ Len(inflight) = 2
    /\ inflight[1].op = "submit.createProfile"
    /\ inflight[2].op = "submit.createProfile"

\* C9: with a route parameter that is missing, or neither "new" nor a number,
\* ngOnInit fails, fetches no profile, and leaves new false and the working
\* record unset.
C9_InvalidIdFails ==
    routeId = Null \/ (routeId # NewId /\ Number(routeId) = NaN) =>
        /\ ProfileFetches = {}
        /\ pc \in {"created", "awaitCDNs", "failed"}
        /\ new = FALSE
        /\ profile = Undefined

\* the submit requests whose failure the step delivers
SubmitFailures ==
    {r \in rejected' \ rejected : r.op \in {"submit.createProfile", "submit.updateProfile"}}

IsGetProfilesRequest(a, r) ==
    /\ r.method = "GET" /\ r.path = <<"profiles">> /\ r.body = Undefined
    /\ CASE a.type = "number" ->
                r.params # Undefined /\ r.params.key = "id"
                    /\ r.params.value = NumberToString(a.value)
         [] a.type = "string" ->
                r.params # Undefined /\ r.params.key = "name" /\ r.params.value = a.value
         [] a.type = "undefined" -> r.params = Undefined

\* C7: getProfiles issues one GET on profiles, with the query id=<number> for a
\* number, name=<string> for a string and no query without an argument; with an
\* argument it returns the first element of the response, which is the profile
\* of that id or name, and without one the whole list of the server's profiles.
C7_GetProfilesPassThrough ==
    /\ \A i \in DOMAIN sent : sent[i].op = "getProfiles" =>
            /\ IsGetProfilesRequest(sent[i].arg, sent[i].req)
            /\ \A j \in DOMAIN sent : sent[j].call = sent[i].call => j = i
    /\ svcResult # Undefined =>
            LET a == svcResult.arg
                r == svcResult.response
            IN  CASE a.type = "number" ->
                        IF Len(r) = 0 THEN svcResult.result = Undefined
                        ELSE svcResult.result = r[1] /\ svcResult.result.id = a.value
                  [] a.type = "string" ->
                        IF Len(r) = 0 THEN svcResult.result = Undefined
                        ELSE svcResult.result = r[1] /\ svcResult.result.name = a.value
                  [] a.type = "undefined" ->
                        /\ svcResult.result = r
                        /\ r = ProfileList(svcResult.server)

C7_Witness ==
    /\ svcResult # Undefined
    /\ svcResult.arg.type = "string"
    /\ Len(svcResult.response) = 2
    /\ svcResult.result.id = 2

\* C6: every route of ROUTES carries AuthenticatedGuard in canActivate, and the
\* router activates a core component only for an authenticated user.
C6_RoutesGuarded ==
    [][/\ \A i \in DOMAIN ROUTES :
            \E k \in DOMAIN Guards(ROUTES[i]) : Guards(ROUTES[i])[k] = AuthenticatedGuard
       /\ activated' # activated => authenticated]_vars

C6_Witness ==
    /\ activated # Undefined
    /\ activated.component = "ProfileDetailComponent"
    /\ ~authenticated
    /\ refused = <<"profiles">>

\* C8: in the form opened for a new record the name field is invalid for each
\* of "-", "_" and "^", and the domain name field is invalid for "-".
C8_InvalidCharactersRejected ==
    form # Undefined =>
        /\ form.name \in {<<"-">>, <<"_">>, <<"^">>} => ~form.nameValid
        /\ form.domainName = <<"-">> => ~form.domainNameValid

C8_Witness ==
    /\ form # Undefined
    /\ form.name = <<"^">> /\ ~form.nameValid
    /\ form.domainName = <<"-">> /\ ~form.domainNameValid

\* the PUT and DELETE requests issued so far
Writes == {i \in DOMAIN sent : sent[i].req.method \in {"PUT", "DELETE"}}

\* the ids of the records the server has returned to the component: the record
\* ngOnInit fetched, and the records its POSTs created
ReturnedIds ==
    (IF pc = "done" /\ routeId \notin {Null, NewId} THEN {Number(routeId)} ELSE {})
        \cup (InitialNextId .. (nextId - 1))

\* every PUT or DELETE issued so far targets profiles/<id> with the id of a
\* record the server returned, never the sentinel; the working record carries
\* the sentinel exactly while it is new, and no dialog is open on a new record
WritesTargetReturned ==
    /\ \A i \in Writes :
          /\ sent[i].req.path # <<"profiles", NumberToString(EmptyProfile.id)>>
          /\ Len(sent[i].req.path) = 2
          /\ Number(sent[i].req.path[2]) \in ReturnedIds
    /\ EmptyProfile.id \notin ReturnedIds
    /\ new => /\ profile.id = EmptyProfile.id
              /\ dialogs = 0
              /\ Writes = {}
    /\ ~ new /\ profile # Undefined => profile.id \in ReturnedIds

\* the step is a call of deleteType on a new record
DeleteTypeOnNew == new /\ deletes' = deletes + 1

\* C11: no PUT or DELETE is ever issued for the sentinel id -1: each targets
\* the id of a record the server returned, and deleteType on a new record
\* opens no dialog and issues no request.
C11_NoWriteForSentinel ==
    /\ [] WritesTargetReturned
    /\ [][DeleteTypeOnNew => /\ dialogs' = dialogs
                             /\ sent' = sent
                             /\ inflight' = inflight]_vars

\* deleteType was the first call made on a new record and issued nothing; the
\* record was then saved, and saved again with a PUT to the id it was given
C11_Witness ==
    /\ routeId = NewId /\ deletes = 1 /\ submits = 2 /\ rejected = {}
    /\ dialogs = 0 /\ confirms = 0
    /\ \A i \in DOMAIN sent : sent[i].call # 1
    /\ \E i \in DOMAIN sent : sent[i].call = 2 /\ sent[i].req.method = "POST"
    /\ \E i \in Writes :
          /\ sent[i].call = 3
          /\ sent[i].req.method = "PUT"
          /\ sent[i].req.path = <<"profiles", NumberToString(InitialNextId)>>

====
